---- MODULE Spec2Model ----
(***************************************************************************)
(* fastapi-users-firebase: the user entity (user.py), the user store       *)
(* (user_database.py, and its earlier version user_store.py), the payload  *)
(* schemas (schemas.py), the ID-token strategy (id_token.py) and the user  *)
(* manager (manager.py), composed around the identity provider             *)
(* (firebase_admin.auth).                                                  *)
(*                                                                         *)
(* Every coroutine of the package awaits the provider through              *)
(* to_thread.run_sync, so a task is modelled as the segments of code       *)
(* between two awaits: the segment that starts the operation and runs up   *)
(* to the first provider call, and one segment per provider call, which    *)
(* performs the call and runs the code that follows it up to the next      *)
(* call or to the return/raise.                                            *)
(*                                                                         *)
(* Python values are strings ("None", "True", "False", "", "a@x", ...) and *)
(* Python objects are records with a cls field, so that TLC can compare    *)
(* any two of them.                                                        *)
(***************************************************************************)
EXTENDS Naturals, Sequences, FiniteSets, TLC

VARIABLES
    users,          \* the provider's accounts: [Apps -> [subset of UIDs -> UserRecord]]
    dbApp,          \* FirebaseUserDatabase._app
    dbIsSuperuser,  \* FirebaseUserDatabase._is_superuser
    strategyApp,    \* FirebaseIdTokenStrategy._app
    pc,             \* per task: "idle", the provider call it awaits, or "done"
    op,             \* per task: the operation in progress and its arguments
    local,          \* per task: the locals that live across an await
    calls,          \* per task: the collaborator calls the operation has made
    result          \* per task: the operation's outcome (a return or a raise)

vars == <<users, dbApp, dbIsSuperuser, strategyApp, pc, op, local, calls, result>>

\* ------------------------------------------------------------------ bounds

\* The accounts one app of the provider can hold.
MaxUsers == 3

\* The requests: each is a task that awaits one operation of the package.
\* Two run concurrently, or one after the other.
Tasks == {"t1", "t2"}

\* ----------------------------------------------------------- Python values

PyNone == "None"
PyTrue == "True"
PyFalse == "False"

\* bool(v)
Truthy(v) == v \notin {PyNone, PyFalse, ""}

PyBool(b) == IF b THEN PyTrue ELSE PyFalse

\* not v
PyNot(v) == PyBool(~Truthy(v))

\* a or b
PyOr(a, b) == IF Truthy(a) THEN a ELSE b

\* The one non-string value of the model, the integer 7, and str() of a value.
PyInt7 == "int:7"
PyStr(v) == IF v = PyInt7 THEN "7" ELSE v

NoneObj == [cls |-> "NoneType"]

\* ------------------------------------------------------------ the provider

Apps == {"appA", "appB"}
\* An app handle as a constructor receives it: None stands for the default app.
Handles == {PyNone, "appB"}
DefaultApp == "appA"
ResolveApp(h) == IF h = PyNone THEN DefaultApp ELSE h

UidSeq == <<"u1", "7", "u2", "u3", "u4">>
UIDs == {UidSeq[i] : i \in 1..MaxUsers}
Emails == {"a@x", "b@x"}
Phone == "+15550100"
PhotoUrl == "http://p/1.png"

UserRecord(uid, email, phone, verified, disabled, name, photo, claims) ==
    [cls |-> "UserRecord", uid |-> uid, email |-> email, phone_number |-> phone,
     email_verified |-> verified, disabled |-> disabled, display_name |-> name,
     photo_url |-> photo, custom_claims |-> claims]

\* Exceptions and their base classes (firebase_admin, fastapi, builtins).
Bases ==
    [c \in {"ExpiredIdTokenError", "RevokedIdTokenError"} |-> {"InvalidIdTokenError", "FirebaseError"}]
    @@ [c \in {"InvalidIdTokenError", "UserNotFoundError", "CertificateFetchError",
               "EmailAlreadyExistsError", "UnavailableError"} |-> {"FirebaseError"}]
    @@ [c \in {"HTTPException", "TypeError", "AssertionError", "ValidationError",
               "ValueError", "UserNotExists", "UserAlreadyExists", "FirebaseError"} |-> {}]

Exc(c, msg) == [cls |-> c, status |-> 0, detail |-> msg]

\* isinstance(e, c), as an except clause decides it
IsInstance(e, c) == e.cls = c \/ c \in Bases[e.cls]

\* An outcome of a call: a returned value, or a raised exception with its __cause__.
Return(v) == [kind |-> "return", value |-> v, exc |-> NoneObj, cause |-> NoneObj]
Raise(e) == [kind |-> "raise", value |-> NoneObj, exc |-> e, cause |-> NoneObj]
RaiseFrom(e, c) == [kind |-> "raise", value |-> NoneObj, exc |-> e, cause |-> c]

\* A collaborator call as an operation's log keeps it: the callee, the
\* arguments and the outcome.
Call(fn, args, ret) == [fn |-> fn, args |-> args, ret |-> ret]

\* HTTPStatus.FORBIDDEN
FORBIDDEN == 403

\* HTTPException(status, detail)
HTTPException(status, detail) == [cls |-> "HTTPException", status |-> status, detail |-> detail]

\* auth.get_user(uid, app)
auth_get_user(us, uid, app) ==
    IF uid \in DOMAIN us[ResolveApp(app)]
    THEN Return(us[ResolveApp(app)][uid])
    ELSE Raise(Exc("UserNotFoundError", "No user record found for the given identifier."))

\* auth.get_user_by_email(email, app)
auth_get_user_by_email(us, email, app) ==
    LET hits == {u \in DOMAIN us[ResolveApp(app)] : us[ResolveApp(app)][u].email = email}
    IN  IF hits # {}
        THEN Return(us[ResolveApp(app)][CHOOSE u \in hits : TRUE])
        ELSE Raise(Exc("UserNotFoundError", "No user record found for the given identifier."))

\* auth.delete_user(uid): no app is passed, so the default app is used.
auth_delete_user(us, uid) ==
    IF uid \in DOMAIN us[DefaultApp]
    THEN Return(NoneObj)
    ELSE Raise(Exc("UserNotFoundError", "No user record found for the given identifier."))

delete_user_effect(us, uid) ==
    IF uid \in DOMAIN us[DefaultApp]
    THEN [us EXCEPT ![DefaultApp] = [u \in DOMAIN @ \ {uid} |-> @[u]]]
    ELSE us

\* A keyword argument's value, None when it is not passed.
Kw(kw, k) == IF k \in DOMAIN kw THEN kw[k] ELSE PyNone

EmailTaken(us, a, e, self) ==
    e # PyNone /\ \E u \in DOMAIN us[a] \ {self} : us[a][u].email = e

\* The record auth.create_user(app=app, **kw) creates under the fresh uid.
NewRecord(uid, kw) ==
    UserRecord(uid, Kw(kw, "email"), Kw(kw, "phone_number"),
               PyBool(Truthy(Kw(kw, "email_verified"))), PyBool(Truthy(Kw(kw, "disabled"))),
               Kw(kw, "display_name"), Kw(kw, "photo_url"), Kw(kw, "custom_claims"))

\* auth.create_user(app=app, **kw), the provider choosing the uid
auth_create_user(us, app, kw, uid) ==
    IF EmailTaken(us, ResolveApp(app), Kw(kw, "email"), uid)
    THEN Raise(Exc("EmailAlreadyExistsError", "The user with the provided email already exists."))
    ELSE Return(NewRecord(uid, kw))

create_user_effect(us, app, kw, uid) ==
    IF auth_create_user(us, app, kw, uid).kind = "return"
    THEN [us EXCEPT ![ResolveApp(app)] = (uid :> NewRecord(uid, kw)) @@ @]
    ELSE us

\* The record auth.update_user(uid, app=app, **kw) leaves: a key that is not
\* passed leaves the field unchanged, a key passed as None clears it.
UpdatedRecord(rec, kw) ==
    LET new(k, old) == IF k \in DOMAIN kw THEN kw[k] ELSE old
        flag(k, old) == IF k \in DOMAIN kw THEN PyBool(Truthy(kw[k])) ELSE old
    IN  UserRecord(rec.uid, new("email", rec.email), new("phone_number", rec.phone_number),
                   flag("email_verified", rec.email_verified), flag("disabled", rec.disabled),
                   new("display_name", rec.display_name), new("photo_url", rec.photo_url),
                   new("custom_claims", rec.custom_claims))

\* auth.update_user(uid, app=app, **kw)
auth_update_user(us, uid, app, kw) ==
    IF uid \notin DOMAIN us[ResolveApp(app)]
    THEN Raise(Exc("UserNotFoundError", "No user record found for the given identifier."))
    ELSE IF "email" \in DOMAIN kw /\ EmailTaken(us, ResolveApp(app), kw["email"], uid)
    THEN Raise(Exc("EmailAlreadyExistsError", "The user with the provided email already exists."))
    ELSE Return(UpdatedRecord(us[ResolveApp(app)][uid], kw))

update_user_effect(us, uid, app, kw) ==
    IF auth_update_user(us, uid, app, kw).kind = "return"
    THEN [us EXCEPT ![ResolveApp(app)][uid] = UpdatedRecord(@, kw)]
    ELSE us

\* The ID tokens of the model: what each is, whom it names, the app it was issued for.
Token(kind, uid, aud) == [kind |-> kind, uid |-> uid, aud |-> aud]
TokenTable ==
    ("tok_u1" :> Token("valid", "u1", "appA"))
    @@ ("tok_7" :> Token("valid", PyInt7, "appB"))
    @@ ("tok_gone" :> Token("valid", "u2", "appA"))
    @@ ("tok_bad" :> Token("invalid", "u1", "appA"))
    @@ ("tok_expired" :> Token("expired", "u1", "appA"))
    @@ ("tok_revoked" :> Token("revoked", "u1", "appA"))
Tokens == DOMAIN TokenTable

\* auth.verify_id_token(token, app, check_revoked)
auth_verify_id_token(token, app, check_revoked) ==
    LET tk == TokenTable[token] IN
    IF token \notin Tokens
    THEN Raise(Exc("ValueError", "ID token must be a non-empty string."))
    ELSE IF tk.aud # ResolveApp(app) \/ tk.kind = "invalid"
    THEN Raise(Exc("InvalidIdTokenError", "Token is invalid"))
    ELSE IF tk.kind = "expired"
    THEN Raise(Exc("ExpiredIdTokenError", "Id token expired."))
    ELSE IF tk.kind = "revoked" /\ Truthy(check_revoked)
    THEN Raise(Exc("RevokedIdTokenError", "Id token revoked."))
    ELSE Return([cls |-> "dict", uid |-> tk.uid])

\* A failure of the provider that is none of its documented outcomes (the
\* network, a quota): any provider call may end with it.
Unavailable == Raise(Exc("UnavailableError", "provider unavailable"))

\* ------------------------------------------------------------ FirebaseUser

IsSuperuserFuncs == {PyNone, "has_admin_claim"}

\* The injected is_superuser_func applied to a record.
ApplyIsSuperuser(f, rec) == PyBool(f = "has_admin_claim" /\ rec.custom_claims = "admin")

\* FirebaseUser(user, app, is_superuser_func)
FirebaseUser(rec, app, f) ==
    [cls |-> "FirebaseUser", user |-> rec, app |-> app, is_superuser_func |-> f]

id(u) == PyStr(u.user.uid)
email(u) == PyOr(u.user.email, "")
hashed_password(u) == ""
is_active(u) == PyNot(u.user.disabled)
is_superuser(u) ==
    IF u.is_superuser_func = PyNone THEN PyFalse
    ELSE ApplyIsSuperuser(u.is_superuser_func, u.user)
\* is_verified looking at the email only.
is_verified_email_only(u) == PyBool(Truthy(u.user.email_verified))
is_verified(u) == PyBool(Truthy(u.user.email_verified) \/ Truthy(u.user.phone_number))

\* FirebaseUser.from_record(user, app, is_superuser_func)
from_record(rec, app, f) == FirebaseUser(rec, app, f)

\* ------------------------------------------------- FirebaseUserDatabase

\* _map_user leaving out the store's predicate.
map_user_no_predicate(rec) == from_record(rec, dbApp, PyNone)

\* FirebaseUserDatabase._map_user(user)
map_user(rec) == from_record(rec, dbApp, dbIsSuperuser)

\* get_result without its except clause.
get_result_no_except(o) ==
    IF o.kind = "raise" THEN o ELSE Return(from_record(o.value, dbApp, dbIsSuperuser))

\* get_result returning the provider's record as it came.
get_result_unmapped(o) ==
    IF o.kind = "raise"
    THEN IF IsInstance(o.exc, "UserNotFoundError") THEN Return(NoneObj) ELSE o
    ELSE Return(o.value)

\* The code of get and get_by_email after the provider call: o is its outcome.
get_result(o) ==
    IF o.kind = "raise"
    THEN IF IsInstance(o.exc, "UserNotFoundError") THEN Return(NoneObj) ELSE o
    ELSE Return(map_user(o.value))

\* --------------------------------------------------------------- schemas

\* A field without a default: the input must provide it.
Required == "<required>"

\* CreateUpdateFirebaseUserModel: the fields and their defaults.
CreateUpdateFirebaseUserModel ==
    [phone_number |-> PyNone, display_name |-> PyNone, photo_url |-> Required,
     custom_claims |-> PyNone]

\* BaseUserCreate and BaseUserUpdate (fastapi_users.schemas), the other base of
\* the two payload models.
BaseUserCreate ==
    [email |-> Required, password |-> Required, is_active |-> PyTrue,
     is_superuser |-> PyFalse, is_verified |-> PyFalse]
BaseUserUpdate ==
    [password |-> PyNone, email |-> PyNone, is_active |-> PyNone,
     is_superuser |-> PyNone, is_verified |-> PyNone]

\* The fields of the two bases that are not Optional.
NotOptional == {"email", "password"}

\* EmailStr, PhoneNumber, HttpUrl, bool: the values a field's type accepts.
WellFormed(k, v) ==
    \/ v = PyNone
    \/ k = "email" /\ v \in Emails \cup {"c@x"}
    \/ k = "phone_number" /\ v = Phone
    \/ k = "photo_url" /\ v = PhotoUrl
    \/ k \in {"is_active", "is_superuser", "is_verified"} /\ v \in {PyTrue, PyFalse}
    \/ k \in {"password", "display_name", "custom_claims"}

\* The field validation of a model with the given fields: every required
\* field provided, no None for a field that is not Optional, every value of
\* its field's type. Keys that are no field are ignored.
FieldsValid(fields, notopt, d) ==
    \A k \in DOMAIN fields :
        IF k \in DOMAIN d
        THEN WellFormed(k, d[k]) /\ ~(d[k] = PyNone /\ k \in notopt)
        ELSE fields[k] # Required

\* The validated model: the input's values, the defaults for the rest.
Model(cls, fields, d) ==
    [k \in DOMAIN fields |-> IF k \in DOMAIN d THEN d[k] ELSE fields[k]]
    @@ [cls |-> cls]

ValidationError(msg) == Raise(Exc("ValidationError", msg))

\* CreateFirebaseUserModel._check_data, TRUE when it returns self
check_data(data) == ~(data.email = PyNone /\ data.phone_number = PyNone)

\* CreateFirebaseUserModel.model_construct(**create_dict): no validation.
CreateFirebaseUserModel_model_construct(d) ==
    Return(Model("CreateFirebaseUserModel", BaseUserCreate @@ CreateUpdateFirebaseUserModel, d))

\* CreateFirebaseUserModel.model_validate(create_dict)
CreateFirebaseUserModel_model_validate(d) ==
    LET fields == BaseUserCreate @@ CreateUpdateFirebaseUserModel
        data == Model("CreateFirebaseUserModel", fields, d)
    IN  IF ~FieldsValid(fields, NotOptional, d)
        THEN ValidationError("field validation failed")
        ELSE IF ~check_data(data)
        THEN ValidationError("Either email or phone number must be set.")
        ELSE Return(data)

\* UpdateFirebaseUserModel.model_validate(update_dict)
UpdateFirebaseUserModel_model_validate(d) ==
    LET fields == BaseUserUpdate @@ CreateUpdateFirebaseUserModel
    IN  IF ~FieldsValid(fields, {}, d)
        THEN ValidationError("field validation failed")
        ELSE Return(Model("UpdateFirebaseUserModel", fields, d))

\* ------------------------------------- FirebaseUserDatabase: the payloads

\* FirebaseUserDatabase._get_create_update_dict(data, exclude_none=...)
get_create_update_dict(data, exclude_none) ==
    LET items ==
            [email |-> data.email,
             password |-> data.password,
             email_verified |-> data.is_verified,
             display_name |-> data.display_name,
             disabled |-> PyNot(data.is_active),
             phone_number |-> data.phone_number,
             photo_url |-> data.photo_url,
             custom_claims |-> data.custom_claims]
    IN  [key \in DOMAIN items |->
            IF items[key] # PyNone /\ ~exclude_none THEN items[key] ELSE items[key]]

\* delete without its isinstance check.
delete_check_unchecked(self_app, user) == Return(NoneObj)

\* FirebaseUserDatabase.delete, up to the provider call: the raise, or None
\* when the code goes on to auth.delete_user.
delete_check(self_app, user) ==
    IF user.cls # "FirebaseUser"
    THEN Raise(Exc("TypeError", "Object is not a valid user object."))
    ELSE Return(NoneObj)

\* delete suppressing what the provider raises.
delete_result_suppressed(o) == Return(NoneObj)

\* The code of delete after the provider call.
delete_result(o) == IF o.kind = "raise" THEN o ELSE Return(NoneObj)

\* create and update returning the provider's record as it came.
create_update_result_unmapped(o) == o

\* The code of create and update after the provider call.
create_update_result(o) == IF o.kind = "raise" THEN o ELSE Return(map_user(o.value))

\* FirebaseUserDatabase.delete of user_store.py, the store's earlier version,
\* up to the provider call.
user_store_delete_check(self_app, user) ==
    IF user.cls # "FirebaseUser"
    THEN Raise(Exc("TypeError", "Object is not a valid user object."))
    ELSE IF self_app # user.app
    THEN Raise(Exc("AssertionError", "Provided object does not belong to the same app."))
    ELSE Return(NoneObj)

\* ----------------------------------------------------- FirebaseUserManager

\* FirebaseUserManager.parse_id(value)
parse_id(value) == PyStr(value)

\* user_manager.get(id), which FirebaseUserManager inherits from
\* fastapi_users' BaseUserManager: r is the outcome of user_db.get(id).
user_manager_get(r) ==
    IF r.kind = "raise" THEN r
    ELSE IF r.value = NoneObj THEN Raise(Exc("UserNotExists", ""))
    ELSE r

\* ------------------------------------------------- FirebaseIdTokenStrategy

\* The arguments read_token passes to auth.verify_id_token.
verify_id_token_args(token) == <<token, strategyApp, PyTrue>>

\* The data a segment hands to the next one.
Continue(v) == [kind |-> "continue", value |-> v, exc |-> NoneObj, cause |-> NoneObj]

\* read_token without its test of the token.
read_token_begin_unguarded(token) == Continue(NoneObj)

\* read_token before the verification: the return, or the go-ahead.
read_token_begin(token) == IF token = PyNone THEN Return(NoneObj) ELSE Continue(NoneObj)

\* read_token's try statement with the except clauses in the other order.
read_token_try_invalid_first(o) ==
    IF o.kind = "raise"
    THEN IF IsInstance(o.exc, "InvalidIdTokenError")
         THEN Return(NoneObj)
         ELSE IF IsInstance(o.exc, "RevokedIdTokenError") \/ IsInstance(o.exc, "ExpiredIdTokenError")
         THEN RaiseFrom(HTTPException(FORBIDDEN, o.exc.detail), o.exc)
         ELSE o
    ELSE Continue(o.value)

\* read_token's try statement going on after any failure of the verification.
read_token_try_swallowing(o) ==
    IF o.kind = "raise" THEN Continue([cls |-> "dict", uid |-> "u1"]) ELSE Continue(o.value)

\* read_token's try statement around the verification: o is the outcome of
\* auth.verify_id_token, and the except clauses are tried in their order.
read_token_try(o) ==
    IF o.kind = "raise"
    THEN IF IsInstance(o.exc, "RevokedIdTokenError") \/ IsInstance(o.exc, "ExpiredIdTokenError")
         THEN RaiseFrom(HTTPException(FORBIDDEN, o.exc.detail), o.exc)
         ELSE IF IsInstance(o.exc, "InvalidIdTokenError")
         THEN Return(NoneObj)
         ELSE o
    ELSE Continue(o.value)

\* read_token's last line without its return.
read_token_return_dropped(r) == IF r.kind = "raise" THEN r ELSE Return(NoneObj)

\* read_token's last line: r is the outcome of the awaited user_manager.get.
read_token_return(r) == r

\* ------------------------------------------------------------------ state

Idle == [name |-> "none"]
NoLocal == [id |-> PyNone]

InitUsers ==
    [a \in Apps |->
        IF a = "appA"
        THEN ("u1" :> UserRecord("u1", "a@x", PyNone, PyFalse, PyFalse, "Ann", PyNone, PyNone))
        ELSE ("u1" :> UserRecord("u1", "b@x", PyNone, PyTrue, PyFalse, PyNone, PyNone, "admin"))
             @@ ("7" :> UserRecord("7", PyNone, Phone, PyFalse, PyTrue, PyNone, PyNone, PyNone))]

\* The deployments: the store's app handle and superuser predicate, and the
\* strategy's app handle, as the constructors receive them.
Configs ==
    { <<PyNone, PyNone, PyNone>>,
      <<"appB", "has_admin_claim", "appB">>,
      <<"appB", "has_admin_claim", PyNone>> }

Init ==
    /\ users = InitUsers
    /\ \E c \in Configs : dbApp = c[1] /\ dbIsSuperuser = c[2] /\ strategyApp = c[3]
    /\ pc = [t \in Tasks |-> "idle"]
    /\ op = [t \in Tasks |-> Idle]
    /\ local = [t \in Tasks |-> NoLocal]
    /\ calls = [t \in Tasks |-> <<>>]
    /\ result = [t \in Tasks |-> Return(NoneObj)]

\* A task starts operation o: its first segment made the calls cs and either
\* ended with outcome r (p = "done") or awaits the provider call p. The tasks
\* are interchangeable: of two idle tasks it is t1 that starts.
Start(t, o, p, l, cs, r) ==
    /\ pc[t] = "idle"
    /\ t = "t2" => pc["t1"] # "idle"
    /\ op' = [op EXCEPT ![t] = o]
    /\ pc' = [pc EXCEPT ![t] = p]
    /\ local' = [local EXCEPT ![t] = l]
    /\ calls' = [calls EXCEPT ![t] = cs]
    /\ result' = [result EXCEPT ![t] = r]

\* A task's last segment: it made the calls cs and ends the operation with r.
Finish(t, cs, r) ==
    /\ pc' = [pc EXCEPT ![t] = "done"]
    /\ calls' = [calls EXCEPT ![t] = @ \o cs]
    /\ result' = [result EXCEPT ![t] = r]
    /\ UNCHANGED <<op, local>>

Config == <<dbApp, dbIsSuperuser, strategyApp>>

\* ------------------------------------------------ store: get, get_by_email

\* await database.get(id), up to the provider call
get(t) ==
    \E i \in UIDs :
        /\ Start(t, [name |-> "get", id |-> i], "get_user", NoLocal, <<>>, Return(NoneObj))
        /\ UNCHANGED <<users, Config>>

\* auth.get_user returns or raises in the worker thread; get maps the outcome
get_user(t) ==
    /\ pc[t] = "get_user"
    /\ op[t].name = "get"
    /\ \E o \in {auth_get_user(users, op[t].id, dbApp), Unavailable} :
          Finish(t, <<Call("get_user", <<op[t].id, dbApp>>, o)>>, get_result(o))
    /\ UNCHANGED <<users, Config>>

\* await database.get_by_email(email), up to the provider call
get_by_email(t) ==
    \E e \in Emails \cup {"c@x"} :
        /\ Start(t, [name |-> "get_by_email", email |-> e], "get_user_by_email",
                 NoLocal, <<>>, Return(NoneObj))
        /\ UNCHANGED <<users, Config>>

get_user_by_email(t) ==
    /\ pc[t] = "get_user_by_email"
    /\ op[t].name = "get_by_email"
    /\ \E o \in {auth_get_user_by_email(users, op[t].email, dbApp), Unavailable} :
          Finish(t, <<Call("get_user_by_email", <<op[t].email, dbApp>>, o)>>, get_result(o))
    /\ UNCHANGED <<users, Config>>

\* ------------------------------------------ store: delete, create, update

\* The entities a caller can hold: the records of the provider as a store on
\* some app handle wraps them.
HeldEntities ==
    {FirebaseUser(users[ResolveApp(x[1])][x[2]], x[1], dbIsSuperuser) :
        x \in {y \in Handles \X UIDs : y[2] \in DOMAIN users[ResolveApp(y[1])]}}

\* Objects that are no FirebaseUser.
NonEntities == {[cls |-> "sentinel"]}

\* await database.delete(user), up to the provider call
delete(t) ==
    \E user \in HeldEntities \cup NonEntities :
        LET chk == delete_check(dbApp, user) IN
        /\ Start(t, [name |-> "delete", user |-> user],
                 IF chk.kind = "raise" THEN "done" ELSE "delete_user", NoLocal, <<>>, chk)
        /\ UNCHANGED <<users, Config>>

delete_user(t) ==
    /\ pc[t] = "delete_user"
    /\ \/ LET o == auth_delete_user(users, id(op[t].user)) IN
          /\ Finish(t, <<Call("delete_user", <<id(op[t].user)>>, o)>>, delete_result(o))
          /\ users' = delete_user_effect(users, id(op[t].user))
       \/ /\ Finish(t, <<Call("delete_user", <<id(op[t].user)>>, Unavailable)>>,
                     delete_result(Unavailable))
          /\ users' = users
    /\ UNCHANGED Config

\* The field mappings a caller passes to create.
CreateDicts ==
    { <<>>,
      [password |-> "pw", photo_url |-> PyNone],
      [password |-> "pw", photo_url |-> PyNone, phone_number |-> Phone],
      [email |-> PyNone, password |-> "pw", photo_url |-> PyNone],
      [email |-> "c@x", password |-> "pw", photo_url |-> PyNone],
      [email |-> "a@x", password |-> "pw", photo_url |-> PhotoUrl, display_name |-> "Bob",
       is_active |-> PyFalse, is_verified |-> PyTrue, phone_number |-> Phone,
       custom_claims |-> "admin"] }

\* The field mappings a caller passes to update.
UpdateDicts ==
    { <<>>,
      [photo_url |-> PyNone],
      [photo_url |-> PyNone, display_name |-> "Bob", is_active |-> PyTrue],
      [photo_url |-> PhotoUrl, email |-> "b@x", is_verified |-> PyTrue, is_active |-> PyFalse] }

\* await database.create(create_dict), up to the provider call
create(t) ==
    \E d \in CreateDicts :
        LET data == CreateFirebaseUserModel_model_validate(d) IN
        /\ IF data.kind = "raise"
           THEN Start(t, [name |-> "create", dict |-> d], "done", NoLocal, <<>>, data)
           ELSE Start(t, [name |-> "create", dict |-> d], "create_user",
                      [data |-> data.value], <<>>, Return(NoneObj))
        /\ UNCHANGED <<users, Config>>

\* self._create(data) in the worker thread, then the mapping of the record
create_user(t) ==
    /\ pc[t] = "create_user"
    /\ op[t].name = "create"
    /\ LET kw == get_create_update_dict(local[t].data, TRUE)
       IN  \/ \E uid \in UIDs \ DOMAIN users[ResolveApp(dbApp)] :
                LET o == auth_create_user(users, dbApp, kw, uid) IN
                /\ Finish(t, <<Call("create_user", <<dbApp, kw>>, o)>>, create_update_result(o))
                /\ users' = create_user_effect(users, dbApp, kw, uid)
           \/ /\ Finish(t, <<Call("create_user", <<dbApp, kw>>, Unavailable)>>,
                         create_update_result(Unavailable))
              /\ users' = users
    /\ UNCHANGED Config

\* await database.update(user, update_dict), up to the provider call
update(t) ==
    \E user \in HeldEntities, d \in UpdateDicts :
        LET data == UpdateFirebaseUserModel_model_validate(d) IN
        /\ IF data.kind = "raise"
           THEN Start(t, [name |-> "update", user |-> user, dict |-> d], "done",
                      NoLocal, <<>>, data)
           ELSE Start(t, [name |-> "update", user |-> user, dict |-> d], "update_user",
                      [data |-> data.value], <<>>, Return(NoneObj))
        /\ UNCHANGED <<users, Config>>

\* self._update(str(user.id), data) in the worker thread, then the mapping
update_user(t) ==
    /\ pc[t] = "update_user"
    /\ LET uid == PyStr(id(op[t].user))
           kw == get_create_update_dict(local[t].data, TRUE)
       IN  \/ LET o == auth_update_user(users, uid, dbApp, kw) IN
              /\ Finish(t, <<Call("update_user", <<uid, dbApp, kw>>, o)>>,
                        create_update_result(o))
              /\ users' = update_user_effect(users, uid, dbApp, kw)
           \/ /\ Finish(t, <<Call("update_user", <<uid, dbApp, kw>>, Unavailable)>>,
                         create_update_result(Unavailable))
              /\ users' = users
    /\ UNCHANGED Config

\* await database.delete(user) on the store of user_store.py
user_store_delete(t) ==
    \E user \in HeldEntities \cup NonEntities :
        LET chk == user_store_delete_check(dbApp, user) IN
        /\ Start(t, [name |-> "user_store_delete", user |-> user],
                 IF chk.kind = "raise" THEN "done" ELSE "delete_user", NoLocal, <<>>, chk)
        /\ UNCHANGED <<users, Config>>

\* ------------------------------------------------- strategy: read_token

\* await strategy.read_token(token, user_manager), up to the provider call
read_token(t) ==
    \E token \in Tokens \cup {PyNone} :
        /\ IF read_token_begin(token).kind # "continue"
           THEN Start(t, [name |-> "read_token", token |-> token], "done", NoLocal, <<>>,
                      read_token_begin(token))
           ELSE Start(t, [name |-> "read_token", token |-> token], "verify_id_token",
                      NoLocal, <<>>, Return(NoneObj))
        /\ UNCHANGED <<users, Config>>

\* auth.verify_id_token in the worker thread, then the except clauses, or
\* parse_id and the call of user_manager.get up to its provider call
verify_id_token(t) ==
    /\ pc[t] = "verify_id_token"
    /\ LET a == verify_id_token_args(op[t].token) IN
       \E o \in {auth_verify_id_token(a[1], a[2], a[3]), Unavailable} :
          LET r == read_token_try(o)
              c == Call("verify_id_token", a, o)
          IN  IF r.kind # "continue"
              THEN Finish(t, <<c>>, r)
              ELSE /\ pc' = [pc EXCEPT ![t] = "user_manager_get"]
                   /\ local' = [local EXCEPT ![t] = [id |-> parse_id(r.value.uid)]]
                   /\ calls' = [calls EXCEPT ![t] =
                          @ \o <<c, Call("parse_id", <<r.value.uid>>,
                                         Return([cls |-> "str", v |-> parse_id(r.value.uid)]))>>]
                   /\ UNCHANGED <<op, result>>
    /\ UNCHANGED <<users, Config>>

\* auth.get_user in the worker thread for user_manager.get, whose outcome
\* read_token returns
user_manager_get_user(t) ==
    /\ pc[t] = "user_manager_get"
    /\ \E o \in {auth_get_user(users, local[t].id, dbApp), Unavailable} :
          LET r == user_manager_get(get_result(o)) IN
          Finish(t, <<Call("get_user", <<local[t].id, dbApp>>, o),
                      Call("user_manager.get", <<local[t].id>>, r)>>,
                 read_token_return(r))
    /\ UNCHANGED <<users, Config>>

\* ------------------------------------------- manager: the forbidden operations

\* FirebaseUserManager._raise_firebase_client_required without its raise.
raise_firebase_client_required_silent == Return(NoneObj)

\* FirebaseUserManager._raise_firebase_client_required()
raise_firebase_client_required ==
    Raise(HTTPException(FORBIDDEN,
                        "This operation is not allowed, please use a Firebase Client SDK."))

\* The statements of a forbidden operation: the call of
\* _raise_firebase_client_required, whose outcome is r, then, when the
\* operation has one, the return of the base implementation's result.
forbidden_operation(name, args, has_super) ==
    LET r == raise_firebase_client_required
        c == Call("_raise_firebase_client_required", <<>>, r)
    IN  IF r.kind = "raise" THEN [calls |-> <<c>>, result |-> r]
        ELSE IF has_super
        THEN [calls |-> <<c, Call("super", <<name>> \o args, Return(NoneObj))>>,
              result |-> Return(NoneObj)]
        ELSE [calls |-> <<c>>, result |-> Return(NoneObj)]

\* The entities and tokens the callers of the manager pass.
ManagerUsers == {u \in HeldEntities : u.app = dbApp} \cup NonEntities
ManagerTokens == {"tok_u1", PyNone}
Credentials ==
    {[cls |-> "OAuth2PasswordRequestForm", username |-> e, password |-> "pw"] : e \in {"a@x", "c@x"}}

\* await user_manager.request_verify(user, request)
request_verify(t) ==
    \E user \in ManagerUsers :
        LET f == forbidden_operation("request_verify", <<user>>, FALSE) IN
        /\ Start(t, [name |-> "request_verify", user |-> user], "done", NoLocal,
                 f.calls, f.result)
        /\ UNCHANGED <<users, Config>>

\* await user_manager.verify(token, request)
verify(t) ==
    \E token \in ManagerTokens :
        LET f == forbidden_operation("verify", <<token>>, TRUE) IN
        /\ Start(t, [name |-> "verify", token |-> token], "done", NoLocal, f.calls, f.result)
        /\ UNCHANGED <<users, Config>>

\* await user_manager.forgot_password(user, request)
forgot_password(t) ==
    \E user \in ManagerUsers :
        LET f == forbidden_operation("forgot_password", <<user>>, TRUE) IN
        /\ Start(t, [name |-> "forgot_password", user |-> user], "done", NoLocal,
                 f.calls, f.result)
        /\ UNCHANGED <<users, Config>>

\* await user_manager.reset_password(token, password, request)
reset_password(t) ==
    \E token \in ManagerTokens, password \in {"pw"} :
        LET f == forbidden_operation("reset_password", <<token, password>>, TRUE) IN
        /\ Start(t, [name |-> "reset_password", token |-> token, password |-> password],
                 "done", NoLocal, f.calls, f.result)
        /\ UNCHANGED <<users, Config>>

\* await user_manager.authenticate(credentials)
authenticate(t) ==
    \E credentials \in Credentials :
        LET f == forbidden_operation("authenticate", <<credentials>>, TRUE) IN
        /\ Start(t, [name |-> "authenticate", credentials |-> credentials], "done", NoLocal,
                 f.calls, f.result)
        /\ UNCHANGED <<users, Config>>

\* ----------------------------------------------------- manager: create

\* The user_create models a caller passes to the manager: the fields it set.
UserCreates ==
    {[email |-> e, password |-> "pw", photo_url |-> PyNone, is_verified |-> PyTrue] :
        e \in {"a@x", "c@x"}}

\* user_create.create_update_dict() when safe, else
\* user_create.create_update_dict_superuser(): the fields that were set, less
\* the privileged ones when safe.
create_update_dict(user_create, safe) ==
    IF safe
    THEN [k \in DOMAIN user_create \ {"is_superuser", "is_active", "is_verified"} |->
             user_create[k]]
    ELSE user_create

\* manager.create after self.user_db.get_by_email: e is its outcome.
existing_user_check(e) ==
    IF e.kind = "raise" THEN e
    ELSE IF e.value # NoneObj THEN Raise(Exc("UserAlreadyExists", ""))
    ELSE Continue(NoneObj)

\* await user_manager.create(user_create, safe, request), up to the provider
\* call of self.user_db.get_by_email. validate_password is the base class's,
\* which accepts every password.
manager_create(t) ==
    \E user_create \in UserCreates, safe \in BOOLEAN :
        /\ Start(t, [name |-> "manager_create", user_create |-> user_create, safe |-> safe],
                 "manager_get_user_by_email", NoLocal, <<>>, Return(NoneObj))
        /\ UNCHANGED <<users, Config>>

\* auth.get_user_by_email in the worker thread for self.user_db.get_by_email,
\* then the test of existing_user, the user_dict, and self.user_db.create up
\* to its provider call
manager_get_user_by_email(t) ==
    /\ pc[t] = "manager_get_user_by_email"
    /\ \E o \in {auth_get_user_by_email(users, op[t].user_create.email, dbApp), Unavailable} :
          LET c == Call("get_user_by_email", <<op[t].user_create.email, dbApp>>, o)
              chk == existing_user_check(get_result(o))
              user_dict == create_update_dict(op[t].user_create, op[t].safe)
              data == CreateFirebaseUserModel_model_validate(user_dict)
          IN  IF chk.kind # "continue"
              THEN Finish(t, <<c>>, chk)
              ELSE IF data.kind = "raise"
              THEN Finish(t, <<c, Call("user_db.create", <<user_dict>>, data)>>, data)
              ELSE /\ pc' = [pc EXCEPT ![t] = "manager_create_user"]
                   /\ local' = [local EXCEPT ![t] = [data |-> data.value, dict |-> user_dict]]
                   /\ calls' = [calls EXCEPT ![t] = @ \o <<c>>]
                   /\ UNCHANGED <<op, result>>
    /\ UNCHANGED <<users, Config>>

\* manager.create after self.user_db.create: r is its outcome, and the calls
\* are those the manager makes from there on.
after_create(user_dict, r) ==
    IF r.kind = "raise"
    THEN <<Call("user_db.create", <<user_dict>>, r)>>
    ELSE <<Call("user_db.create", <<user_dict>>, r),
           Call("on_after_register", <<r.value>>, Return(NoneObj))>>

\* self._create(data) in the worker thread for self.user_db.create, then
\* on_after_register and the return of the created user
manager_create_user(t) ==
    /\ pc[t] = "manager_create_user"
    /\ LET kw == get_create_update_dict(local[t].data, TRUE)
       IN  \/ \E uid \in UIDs \ DOMAIN users[ResolveApp(dbApp)] :
                LET o == auth_create_user(users, dbApp, kw, uid)
                    r == create_update_result(o)
                IN  /\ Finish(t, <<Call("create_user", <<dbApp, kw>>, o)>>
                                  \o after_create(local[t].dict, r), r)
                    /\ users' = create_user_effect(users, dbApp, kw, uid)
           \/ /\ Finish(t, <<Call("create_user", <<dbApp, kw>>, Unavailable)>>
                            \o after_create(local[t].dict, create_update_result(Unavailable)),
                        create_update_result(Unavailable))
              /\ users' = users
    /\ UNCHANGED Config

Next ==
    \E t \in Tasks :
        \/ get(t)
        \/ get_user(t)
        \/ get_by_email(t)
        \/ get_user_by_email(t)
        \/ delete(t)
        \/ delete_user(t)
        \/ create(t)
        \/ create_user(t)
        \/ update(t)
        \/ update_user(t)
        \/ user_store_delete(t)
        \/ read_token(t)
        \/ verify_id_token(t)
        \/ user_manager_get_user(t)
        \/ request_verify(t)
        \/ verify(t)
        \/ forgot_password(t)
        \/ reset_password(t)
        \/ authenticate(t)
        \/ manager_create(t)
        \/ manager_get_user_by_email(t)
        \/ manager_create_user(t)

Spec == Init /\ [][Next]_vars

\* ------------------------------------------------------------------ claims

\* Task t has finished operation name.
Finished(t, name) == pc[t] = "done" /\ op[t].name = name

\* The calls of fn that task t's operation has made.
CallsTo(t, fn) == {i \in 1..Len(calls[t]) : calls[t][i].fn = fn}

\* Task t's read_token has called the verification, which raised class c.
VerifyRaised(t, c) ==
    /\ Finished(t, "read_token")
    /\ \E i \in CallsTo(t, "verify_id_token") :
          calls[t][i].ret.kind = "raise" /\ calls[t][i].ret.exc.cls = c

\* Task t's read_token raised HTTP 403 with the verification's exception as cause.
Forbidden(t) ==
    /\ result[t].kind = "raise"
    /\ result[t].exc.cls = "HTTPException"
    /\ result[t].exc.status = FORBIDDEN
    /\ \E i \in CallsTo(t, "verify_id_token") : result[t].cause = calls[t][i].ret.exc

\* C1: a read_token whose verification raised expired-token or revoked-token
\* raises HTTP 403 with that exception as its cause; one whose verification
\* raised invalid-token returns None.
C1_ReadTokenErrors ==
    \A t \in Tasks :
        /\ VerifyRaised(t, "ExpiredIdTokenError") \/ VerifyRaised(t, "RevokedIdTokenError")
              => Forbidden(t)
        /\ VerifyRaised(t, "InvalidIdTokenError") => result[t] = Return(NoneObj)

C1_Witness ==
    /\ VerifyRaised("t1", "RevokedIdTokenError") /\ Forbidden("t1")
    /\ VerifyRaised("t2", "InvalidIdTokenError") /\ result["t2"] = Return(NoneObj)

\* C2: read_token(None, manager) returns None at once and never calls the
\* provider's verification.
C2_ReadTokenNone ==
    \A t \in Tasks :
        (op[t].name = "read_token" /\ op[t].token = PyNone)
            => /\ pc[t] = "done"
               /\ result[t] = Return(NoneObj)
               /\ CallsTo(t, "verify_id_token") = {}

C2_Witness ==
    \E t \in Tasks : Finished(t, "read_token") /\ op[t].token = PyNone /\ calls[t] = <<>>

\* Task t's read_token has finished after a verification that returned claims.
Verified(t) ==
    /\ Finished(t, "read_token")
    /\ \E i \in CallsTo(t, "verify_id_token") : calls[t][i].ret.kind = "return"

\* The subject id of the claims task t's verification returned.
Subject(t) ==
    calls[t][CHOOSE i \in CallsTo(t, "verify_id_token") : TRUE].ret.value.uid

\* C3: when the verification returns claims with subject id u, it was called
\* with the token, the strategy's app and check_revoked=True, user_manager.get
\* was called with parse_id(u), and read_token's outcome is that call's outcome.
C3_ReadTokenResolves ==
    \A t \in Tasks :
        Verified(t) =>
            /\ \A i \in CallsTo(t, "verify_id_token") :
                  calls[t][i].args = <<op[t].token, strategyApp, PyTrue>>
            /\ \E i \in CallsTo(t, "user_manager.get") :
                  /\ calls[t][i].args = <<PyStr(Subject(t))>>
                  /\ result[t] = calls[t][i].ret

C3_Witness ==
    \E t \in Tasks :
        /\ Verified(t)
        /\ Subject(t) = PyInt7
        /\ strategyApp # PyNone
        /\ result[t].kind = "return"
        /\ result[t].value.cls = "FirebaseUser"
        /\ result[t].value.user.uid = "7"

\* Task t's read_token verified its token and the store's get-by-id found no record.
VerifiedButGone(t) ==
    /\ Verified(t)
    /\ \E i \in CallsTo(t, "get_user") :
          calls[t][i].ret.kind = "raise" /\ calls[t][i].ret.exc.cls = "UserNotFoundError"

\* C4: when the token verifies and the store finds no record for its subject
\* id, read_token returns None and does not raise.
C4_ReadTokenGoneUser ==
    \A t \in Tasks : VerifiedButGone(t) => result[t] = Return(NoneObj)

\* Task t's get or get_by_email has finished and the provider's lookup raised class c.
LookupRaised(t, name, c) ==
    /\ Finished(t, name)
    /\ calls[t][1].ret.kind = "raise"
    /\ calls[t][1].ret.exc.cls = c

\* C5: get and get_by_email return None, and do not raise, when the provider's
\* lookup raises not-found.
C5_NotFoundIsNone ==
    \A t \in Tasks :
        (LookupRaised(t, "get", "UserNotFoundError")
         \/ LookupRaised(t, "get_by_email", "UserNotFoundError"))
            => result[t] = Return(NoneObj)

C5_Witness ==
    /\ LookupRaised("t1", "get", "UserNotFoundError")
    /\ LookupRaised("t2", "get_by_email", "UserNotFoundError")
    /\ result["t1"] = Return(NoneObj)
    /\ result["t2"] = Return(NoneObj)

\* Task t's get or get_by_email has finished and the provider returned a record.
LookupFound(t, name) ==
    /\ Finished(t, name)
    /\ calls[t][1].ret.kind = "return"

\* Task t returned an entity that wraps the record its first provider call returned.
WrapsRecord(t) ==
    /\ result[t].kind = "return"
    /\ result[t].value.cls = "FirebaseUser"
    /\ result[t].value.user = calls[t][1].ret.value

\* C6: when the provider returns a record, get returns an entity that wraps
\* it and whose id is str() of the queried id, and get_by_email returns an
\* entity that wraps the record the provider returned.
C6_FoundIsWrapped ==
    \A t \in Tasks :
        /\ LookupFound(t, "get") => WrapsRecord(t) /\ id(result[t].value) = PyStr(op[t].id)
        /\ LookupFound(t, "get_by_email") => WrapsRecord(t)

C6_Witness ==
    /\ LookupFound("t1", "get") /\ WrapsRecord("t1") /\ op["t1"].id = "7"
    /\ LookupFound("t2", "get_by_email") /\ WrapsRecord("t2")

\* The field mapping d provides neither an email nor a phone number.
NoEmailNoPhone(d) == Kw(d, "email") = PyNone /\ Kw(d, "phone_number") = PyNone

\* C7: create with a field mapping that has neither email nor phone number
\* fails with a validation failure and makes no provider create call.
C7_CreateNeedsEmailOrPhone ==
    \A t \in Tasks :
        (op[t].name = "create" /\ NoEmailNoPhone(op[t].dict))
            => /\ pc[t] = "done"
               /\ result[t].kind = "raise"
               /\ result[t].exc.cls = "ValidationError"
               /\ CallsTo(t, "create_user") = {}

C7_Witness ==
    \E t \in Tasks :
        /\ Finished(t, "create")
        /\ NoEmailNoPhone(op[t].dict)
        /\ "password" \in DOMAIN op[t].dict /\ "photo_url" \in DOMAIN op[t].dict
        /\ result[t].exc.cls = "ValidationError"

\* C8: delete with an argument that is no FirebaseUser raises TypeError and
\* never calls the provider's delete.
C8_DeleteTypeChecks ==
    \A t \in Tasks :
        (op[t].name \in {"delete", "user_store_delete"} /\ op[t].user.cls # "FirebaseUser")
            => /\ pc[t] = "done"
               /\ result[t].kind = "raise"
               /\ result[t].exc.cls = "TypeError"
               /\ CallsTo(t, "delete_user") = {}

C8_Witness ==
    \E t \in Tasks :
        /\ Finished(t, "delete")
        /\ op[t].user \in NonEntities
        /\ result[t].exc.cls = "TypeError"
        /\ calls[t] = <<>>

\* C9: the exported store's delete with an entity of another app handle
\* raises AssertionError and never calls the provider's delete; an entity of
\* the store's app reaches the provider's delete, called once with its id.
C9_DeleteAssertsSameApp ==
    \A t \in Tasks :
        (op[t].name = "delete" /\ op[t].user.cls = "FirebaseUser")
            => IF op[t].user.app # dbApp
               THEN /\ pc[t] = "done"
                    /\ result[t].kind = "raise"
                    /\ result[t].exc.cls = "AssertionError"
                    /\ CallsTo(t, "delete_user") = {}
               ELSE pc[t] = "done" =>
                        /\ Cardinality(CallsTo(t, "delete_user")) = 1
                        /\ calls[t][1].args = <<id(op[t].user)>>

\* The field of the update payload that a provider keyword argument is built from.
SourceField(k) ==
    IF k = "email_verified" THEN "is_verified"
    ELSE IF k = "disabled" THEN "is_active"
    ELSE k

\* C10: the keyword arguments update builds for the provider hold a key only
\* for the fields its field mapping provides.
C10_UpdateOmitsUnset ==
    \A t \in Tasks :
        \A i \in CallsTo(t, "update_user") :
            \A k \in DOMAIN calls[t][i].args[3] : SourceField(k) \in DOMAIN op[t].dict

\* C11: update accepts a field mapping with any subset of the payload's
\* fields, the empty one included, without a validation failure, and goes on
\* to the provider's update call.
C11_UpdateFullyPartial ==
    \A t \in Tasks :
        op[t].name = "update" =>
            /\ ~(result[t].kind = "raise" /\ result[t].exc.cls = "ValidationError")
            /\ pc[t] = "done" => CallsTo(t, "update_user") # {}

\* The records the provider holds.
AllRecords == UNION {{users[a][u] : u \in DOMAIN users[a]} : a \in Apps}

\* The entities the finished operations returned.
ReturnedEntities ==
    {result[t].value : t \in {x \in Tasks : pc[x] = "done" /\ result[x].kind = "return"
                                             /\ result[x].value.cls = "FirebaseUser"}}

\* C12: an entity's is_verified is true exactly when its record's email is
\* marked verified or its record has a non-empty phone number.
C12_IsVerifiedIff ==
    \A e \in ReturnedEntities \cup {FirebaseUser(rec, dbApp, dbIsSuperuser) : rec \in AllRecords} :
        /\ is_verified(e) \in {PyTrue, PyFalse}
        /\ is_verified(e) = PyTrue
              <=> (e.user.email_verified = PyTrue \/ e.user.phone_number \notin {PyNone, ""})

C12_Witness ==
    /\ \E e \in ReturnedEntities :
          /\ e.user.email_verified = PyFalse
          /\ e.user.phone_number = Phone
          /\ is_verified(e) = PyTrue
    /\ \E e \in ReturnedEntities :
          /\ e.user.email_verified = PyFalse
          /\ e.user.phone_number = PyNone
          /\ is_verified(e) = PyFalse

\* The operations of the store that return an entity.
StoreLookups == {"get", "get_by_email", "create", "update"}

ForbiddenOperations ==
    {"request_verify", "verify", "forgot_password", "reset_password", "authenticate"}

\* C14: request_verify, verify, forgot_password, reset_password and
\* authenticate raise HTTP 403 for every input and call neither the base
\* implementation nor the store nor the provider.
C14_ForbiddenOperations ==
    \A t \in Tasks :
        op[t].name \in ForbiddenOperations =>
            /\ pc[t] = "done"
            /\ result[t].kind = "raise"
            /\ result[t].exc.cls = "HTTPException"
            /\ result[t].exc.status = FORBIDDEN
            /\ \A i \in 1..Len(calls[t]) : calls[t][i].fn = "_raise_firebase_client_required"

C14_Witness ==
    /\ Finished("t1", "verify") /\ result["t1"].exc.status = FORBIDDEN
    /\ Finished("t2", "authenticate") /\ result["t2"].exc.status = FORBIDDEN

\* The calls of the log that went to the provider.
ProviderCalls ==
    {"get_user", "get_user_by_email", "delete_user", "create_user", "update_user",
     "verify_id_token"}

\* The provider failures the package handles: not-found in a lookup, and an
\* invalid, expired or revoked token in the verification.
Handled(c) ==
    \/ c.fn \in {"get_user", "get_user_by_email"} /\ IsInstance(c.ret.exc, "UserNotFoundError")
    \/ c.fn = "verify_id_token" /\ IsInstance(c.ret.exc, "InvalidIdTokenError")

\* C15: a provider failure that is none of the handled ones ends the
\* operation with that very exception, and the operation makes no provider
\* call after it.
C15_OtherFailuresPropagate ==
    \A t \in Tasks :
        \A i \in 1..Len(calls[t]) :
            (calls[t][i].fn \in ProviderCalls /\ calls[t][i].ret.kind = "raise"
             /\ ~Handled(calls[t][i]))
                => /\ pc[t] = "done"
                   /\ result[t] = calls[t][i].ret
                   /\ \A j \in (i + 1)..Len(calls[t]) : calls[t][j].fn \notin ProviderCalls

C15_Witness ==
    /\ Finished("t1", "delete")
    /\ Len(calls["t1"]) = 1
    /\ calls["t1"][1].ret.kind = "raise"
    /\ calls["t1"][1].ret.exc.cls = "UserNotFoundError"
    /\ result["t1"] = calls["t1"][1].ret
    /\ Finished("t2", "read_token")
    /\ Len(calls["t2"]) = 1
    /\ result["t2"] = Unavailable

\* C16: an update whose field mapping has no is_active leaves the account's
\* disabled flag as it was, and passes disabled to the provider only when the
\* field mapping has is_active.
C16_UpdateKeepsDisabled ==
    [][\A t \in Tasks :
          (pc[t] = "update_user" /\ pc'[t] = "done" /\ "is_active" \notin DOMAIN op[t].dict)
              => LET a == ResolveApp(dbApp)
                     uid == id(op[t].user)
                 IN  /\ "disabled" \notin DOMAIN calls'[t][Len(calls'[t])].args[3]
                     /\ (result'[t].kind = "return"
                            => users'[a][uid].disabled = users[a][uid].disabled)]_vars

\* C17: an update that succeeds has called the provider's update once, with
\* the entity's id, and a create that succeeds has called the provider's
\* create once; each returns an entity that wraps the record that call
\* returned; update reads the id of the entity it is passed and nothing else.
C17_CreateUpdateOnceAndWrap ==
    \A t \in Tasks :
        /\ (Finished(t, "update") /\ result[t].kind = "return")
              => /\ Cardinality(CallsTo(t, "update_user")) = 1
                 /\ calls[t][1].args[1] = id(op[t].user)
                 /\ WrapsRecord(t)
                 /\ id(op[t].user) = id(result[t].value)
        /\ (Finished(t, "create") /\ result[t].kind = "return")
              => /\ Cardinality(CallsTo(t, "create_user")) = 1
                 /\ WrapsRecord(t)

C17_Witness ==
    /\ Finished("t1", "update")
    /\ WrapsRecord("t1")
    /\ result["t1"].value.user # op["t1"].user.user
    /\ Finished("t2", "create")
    /\ WrapsRecord("t2")
    /\ result["t2"].value.user.email = "c@x"

\* The app a provider call of the log was issued against.
AppOf(c) ==
    IF c.fn = "delete_user" THEN DefaultApp
    ELSE IF c.fn = "create_user" THEN ResolveApp(c.args[1])
    ELSE ResolveApp(c.args[2])

\* The provider calls the store issues.
StoreProviderCalls ==
    {"get_user", "get_user_by_email", "delete_user", "create_user", "update_user"}

\* C18: every provider call of the store is issued against the store's app,
\* so that once a delete has succeeded, with nothing else running, the
\* account is gone from the store's app and a get of its id returns None.
C18_StoreUsesItsApp ==
    /\ \A t \in Tasks :
          \A i \in 1..Len(calls[t]) :
              calls[t][i].fn \in StoreProviderCalls
                  => AppOf(calls[t][i]) = ResolveApp(dbApp)
    /\ \A t \in Tasks :
          (Finished(t, "delete") /\ result[t].kind = "return" /\ CallsTo(t, "delete_user") # {}
           /\ \A x \in Tasks \ {t} : pc[x] = "idle")
              => get_result(auth_get_user(users, id(op[t].user), dbApp)) = Return(NoneObj)

\* C19: a read_token calls the verification at most once, and calls
\* user_manager.get only after the verification returned: never for a None
\* token, never after the verification raised.
C19_ReadTokenOrder ==
    \A t \in Tasks :
        op[t].name = "read_token" =>
            /\ Cardinality(CallsTo(t, "verify_id_token")) <= 1
            /\ (pc[t] = "user_manager_get" \/ CallsTo(t, "user_manager.get") # {}
                \/ CallsTo(t, "get_user") # {})
                  => /\ op[t].token # PyNone
                     /\ \E j \in CallsTo(t, "verify_id_token") :
                           /\ calls[t][j].ret.kind = "return"
                           /\ \A i \in CallsTo(t, "user_manager.get") \cup CallsTo(t, "get_user") :
                                 j < i

C19_Witness ==
    /\ pc["t1"] = "user_manager_get"
    /\ Cardinality(CallsTo("t1", "verify_id_token")) = 1
    /\ Finished("t2", "read_token")
    /\ CallsTo("t2", "user_manager.get") # {}
    /\ calls["t2"][1].fn = "verify_id_token"

\* Task t's manager.create found a user with its email.
FoundExisting(t) ==
    /\ op[t].name = "manager_create"
    /\ \E i \in CallsTo(t, "get_user_by_email") : calls[t][i].ret.kind = "return"

\* Task t's manager.create was told by the provider that its email is taken.
EmailWasTaken(t) ==
    /\ op[t].name = "manager_create"
    /\ \E i \in CallsTo(t, "create_user") :
          /\ calls[t][i].ret.kind = "raise"
          /\ calls[t][i].ret.exc.cls = "EmailAlreadyExistsError"

\* Task t's manager.create reached the provider's create, and the provider
\* answered it.
ReachedCreate(t) ==
    \E i \in CallsTo(t, "create_user") : calls[t][i].ret # Unavailable

\* C20: a manager.create for an email the provider already has raises
\* UserAlreadyExists without calling the store's create or on_after_register,
\* and of the manager.create calls for one email, however they interleave,
\* at most one reaches the provider's create.
C20_ManagerCreateUnique ==
    /\ \A t \in Tasks :
          (FoundExisting(t) \/ EmailWasTaken(t))
              => /\ pc[t] = "done"
                 /\ result[t].kind = "raise"
                 /\ result[t].exc.cls = "UserAlreadyExists"
                 /\ CallsTo(t, "on_after_register") = {}
                 /\ FoundExisting(t) => CallsTo(t, "user_db.create") = {}
    /\ \A t \in Tasks : \A x \in Tasks \ {t} :
          (op[t].name = "manager_create" /\ op[x].name = "manager_create"
           /\ op[t].user_create.email = op[x].user_create.email)
              => ~(ReachedCreate(t) /\ ReachedCreate(x))

====
